---------------------------- MODULE Spec2Model ----------------------------
(***************************************************************************)
(* A model of script.js: the generator that reads the "Available types"    *)
(* section of a documentation page (h4 / p / .table elements) and prints   *)
(* Zig struct declarations.                                                *)
(*                                                                         *)
(* JavaScript strings are modelled as sequences of one-character strings,  *)
(* so that the regular expressions, startsWith, includes, slice and trim   *)
(* of the source are computed character by character.                      *)
(***************************************************************************)
EXTENDS Integers, Sequences, FiniteSets

VARIABLES
    pc,              \* position of the script: "scan" (inside the forEach of
                     \* getStructInfoFromElements), "returned", "done",
                     \* "threw" (an uncaught TypeError ended the script), "off"
    elem,            \* the element the forEach callback was last called with
    idx,             \* number of elements the callback has been called with
    taken,           \* history: the branch each call of the callback took
    info,            \* the array info: a sequence of object references
    structs,         \* the heap: reference -> StructInfo object
    currentStruct,   \* a reference, or 0 for null
    hasParagraph,
    hasTable,
    console,         \* what console.error and console.log have written
    availableTypes,  \* the global of script.js:307
    received,        \* history: reference -> how many paragraphs and
                     \* header-valid tables the object was given, and the
                     \* last such table
    headings,        \* history: the innerText of the H4 elements processed;
                     \* the reference of the k-th heading's object is k
    config,          \* the global config object (script.js:1-6)
    typeArg,         \* argument of a call of replaceTypeIfNeeded
    typeResult,      \* its return value
    mpc,             \* position of that call: "call" | "ret" | "off"
    fieldArg,        \* argument of a call of genOneField (a StructFieldInfo)
    fieldResult,     \* its return value
    fpc              \* position of that call: "call" | "ret" | "off"

vars == <<pc, elem, idx, taken, info, structs, currentStruct, hasParagraph, hasTable,
          console, availableTypes, received, headings, config, typeArg, typeResult, mpc, fieldArg, fieldResult, fpc>>

-----------------------------------------------------------------------------
(* Characters and string primitives of JavaScript.                          *)

Upper == {"A","B","C","D","E","F","G","H","I","J","K","L","M",
          "N","O","P","Q","R","S","T","U","V","W","X","Y","Z"}

Lower == {"a","b","c","d","e","f","g","h","i","j","k","l","m",
          "n","o","p","q","r","s","t","u","v","w","x","y","z"}

Digit == {"0","1","2","3","4","5","6","7","8","9"}

\* \w of a JavaScript regular expression
WordChar == Upper \cup Lower \cup Digit \cup {"_"}

\* \s of a JavaScript regular expression, and the characters trim() strips
\* (the ASCII ones)
WhiteSpace == {" ", "\t", "\n", "\r", "\f"}

\* the value null
NULL == <<"null">>

\* String.prototype.startsWith
startsWith(s, p) == Len(s) >= Len(p) /\ SubSeq(s, 1, Len(p)) = p

\* String.prototype.includes
includes(s, p) ==
    \E i \in 1..(Len(s) - Len(p) + 1) : SubSeq(s, i, i + Len(p) - 1) = p

\* String.prototype.slice(n)
slice(s, n) == SubSeq(s, n + 1, Len(s))

\* The index of the last character of the longest run of characters of class
\* C that starts at index i of s; i - 1 when s[i] is not in C.
RunEnd(s, i, C) ==
    LET ends == {j \in (i - 1)..Len(s) : \A k \in i..j : s[k] \in C}
    IN  CHOOSE j \in ends : \A k \in ends : k <= j

\* String.prototype.trim
trim(s) ==
    LET first == RunEnd(s, 1, WhiteSpace) + 1
        lasts == {j \in 0..Len(s) : \A k \in (j + 1)..Len(s) : s[k] \in WhiteSpace}
        last  == CHOOSE j \in lasts : \A k \in lasts : j <= k
    IN  IF first > Len(s) THEN <<>> ELSE SubSeq(s, first, last)

-----------------------------------------------------------------------------
(* replaceNewlines (script.js:264-266): input.replace(/\n/g, '\n' + ident + *)
(* '/// ').                                                                 *)

RECURSIVE replaceNewlines(_, _)
replaceNewlines(input, ident) ==
    IF input = <<>> THEN <<>>
    ELSE IF Head(input) = "\n"
         THEN <<"\n">> \o ident \o <<"/","/","/"," ">> \o replaceNewlines(Tail(input), ident)
         ELSE <<Head(input)>> \o replaceNewlines(Tail(input), ident)

-----------------------------------------------------------------------------
(* replaceArrayOf (script.js:273-275):                                      *)
(*   input.replace(/Array of\s+(\w+)/g, '[]$1')                             *)

\* The match of /Array of\s+(\w+)/ that starts at index i of input, as
\* [ok, g1, g2]: group 1 is input[g1..g2] and the match ends at g2.  \s+ and
\* \w+ are greedy and their classes are disjoint, so the longest runs are the
\* only candidates.
MatchArrayOf(input, i) ==
    LET lit   == <<"A","r","r","a","y"," ","o","f">>
        sFrom == i + Len(lit)
        sTo   == RunEnd(input, sFrom, WhiteSpace)
        wTo   == RunEnd(input, sTo + 1, WordChar)
    IN  IF /\ i + Len(lit) - 1 <= Len(input)
           /\ SubSeq(input, i, i + Len(lit) - 1) = lit
           /\ sTo >= sFrom
           /\ wTo >= sTo + 1
        THEN [ok |-> TRUE, g1 |-> sTo + 1, g2 |-> wTo]
        ELSE [ok |-> FALSE, g1 |-> 0, g2 |-> 0]

\* The global replace, scanning from index i: a match is replaced and the
\* scan resumes after it; otherwise the character is copied.
RECURSIVE ReplaceArrayOfFrom(_, _)
ReplaceArrayOfFrom(input, i) ==
    IF i > Len(input) THEN <<>>
    ELSE LET m == MatchArrayOf(input, i)
         IN  IF m.ok
             THEN <<"[","]">> \o SubSeq(input, m.g1, m.g2)
                        \o ReplaceArrayOfFrom(input, m.g2 + 1)
             ELSE <<input[i]>> \o ReplaceArrayOfFrom(input, i + 1)

replaceArrayOf(input) == ReplaceArrayOfFrom(input, 1)

-----------------------------------------------------------------------------
(* replaceTypeIfNeeded (script.js:166-209), reading the global config.      *)

RECURSIVE replaceTypeIfNeeded(_)
replaceTypeIfNeeded(type0) ==
    LET type == replaceArrayOf(type0)
    IN  IF startsWith(type, <<"[","]">>)
          THEN <<"[","]">> \o replaceTypeIfNeeded(slice(type, 2))
        ELSE IF type = <<"I","n","t","e","g","e","r">>
          THEN IF config.integerIs = NULL
               THEN <<"@","c","o","m","p","i","l","e","E","r","r","o","r","(","\"","I","t","'","s"," ","a"," ","I","n","t","e","g","e","r",","," ","c","h","o","o","s","e"," ","o","n","e"," ","i","n","t","e","g","e","r"," ","t","y","p","e","\"",")">>
               ELSE config.integerIs
        ELSE IF type = <<"F","l","o","a","t">>
          THEN IF config.floatIs = NULL
               THEN <<"@","c","o","m","p","i","l","e","E","r","r","o","r","(","\"","I","t","'","s"," ","a"," ","F","l","o","a","t",","," ","c","h","o","o","s","e"," ","o","n","e"," ","f","l","o","a","t"," ","t","y","p","e","\"",")">>
               ELSE config.floatIs
        ELSE IF type = <<"B","o","o","l","e","a","n">>
          THEN <<"b","o","o","l">>
        ELSE IF type = <<"T","r","u","e">>
          THEN IF config.trueIsBool THEN <<"b","o","o","l">> ELSE <<"@","T","y","p","e","O","f","(","t","r","u","e",")">>
        ELSE IF type = <<"S","t","r","i","n","g">>
          THEN <<"[","]","u","8">>
        ELSE IF type = <<"I","n","t","e","g","e","r"," ","o","r"," ","S","t","r","i","n","g">>
          THEN <<"i","n","t","e","g","e","r","_","o","r","_","s","t","r","i","n","g">>
        ELSE IF includes(type, <<"o","r">>)
          THEN IF config.useJsonValueInCaseIncludesOr
               THEN <<"s","t","d",".","j","s","o","n",".","V","a","l","u","e">>
               ELSE <<"@","c","o","m","p","i","l","e","E","r","r","o","r","(","\"","T","y","p","e"," ","n","a","m","e"," ","i","n","c","l","u","d","e","s"," ","'","o","r","'"," ","n","o","t"," ","y","e","t"," ","s","u","p","p","o","r","t","e","d",":"," ","'">>
                    \o type \o <<"'","\"",")">>
        ELSE type

-----------------------------------------------------------------------------
\* isGoodTypeName (script.js:254-257):
\*   /^[A-Z][a-z0-9]*([A-Z][a-z0-9]*)*$/.test(str)

\* Whether str[i..] is a concatenation of segments [A-Z][a-z0-9]*, at least
\* min of them.
RECURSIVE MatchSegments(_, _, _)
MatchSegments(str, i, min) ==
    IF i > Len(str) THEN min = 0
    ELSE /\ str[i] \in Upper
         /\ LET to == RunEnd(str, i + 1, Lower \cup Digit)
            IN  \* [a-z0-9]* is followed by [A-Z] or the end, so only the
                \* longest run can lead to a match
                MatchSegments(str, to + 1, 0)

isGoodTypeName(str) == MatchSegments(str, 1, 1)

-----------------------------------------------------------------------------
(* The code emitter.                                                        *)

\* the default value of genOneField's parameter indent (script.js:42)
DefaultIndent == <<" "," "," "," ">>

\* mutant: includes('Optional.') in place of startsWith('Optional.')
genOneField_Includes(fieldInfo, indent) ==
    LET isOptional == includes(fieldInfo.description, <<"O","p","t","i","o","n","a","l",".">>)
    IN  indent \o <<"/","/","/"," ">> \o replaceNewlines(fieldInfo.description, <<>>) \o <<"\n">>
        \o indent \o fieldInfo.field \o <<":"," ">>
        \o (IF isOptional THEN <<"?">> ELSE <<>>)
        \o replaceTypeIfNeeded(fieldInfo.type)
        \o (IF isOptional THEN <<" ","="," ","n","u","l","l">> ELSE <<>>)
        \o <<",","\n">>

\* genOneField (script.js:42-56)
genOneField(fieldInfo, indent) ==
    LET isOptional == startsWith(fieldInfo.description, <<"O","p","t","i","o","n","a","l",".">>)
    IN  indent \o <<"/","/","/"," ">> \o replaceNewlines(fieldInfo.description, <<>>) \o <<"\n">>
        \o indent \o fieldInfo.field \o <<":"," ">>
        \o (IF isOptional THEN <<"?">> ELSE <<>>)
        \o replaceTypeIfNeeded(fieldInfo.type)
        \o (IF isOptional THEN <<" ","="," ","n","u","l","l">> ELSE <<>>)
        \o <<",","\n">>

\* genManyFields (script.js:63-69)
RECURSIVE genManyFields(_)
genManyFields(fieldInfoArray) ==
    IF fieldInfoArray = <<>> THEN <<>>
    ELSE genOneField(Head(fieldInfoArray), DefaultIndent)
         \o genManyFields(Tail(fieldInfoArray))

\* genStructDef (script.js:152-159)
genStructDef(structInfo) ==
    <<"/","/","/"," ">> \o replaceNewlines(structInfo.typeDoc, <<>>) \o <<"\n">>
    \o <<"p","u","b"," ","c","o","n","s","t"," ">> \o structInfo.typeName \o <<" ","="," ","s","t","r","u","c","t"," ","{","\n">>
    \o genManyFields(structInfo.fields)
    \o <<"}",";">>

\* genCode (script.js:240-247)
RECURSIVE genCode(_)
genCode(structInfoArray) ==
    IF structInfoArray = <<>> THEN <<>>
    ELSE genStructDef(Head(structInfoArray)) \o <<"\n","\n">>
         \o genCode(Tail(structInfoArray))

\* ignoreBad (script.js:216-233): the records it returns.  The script defines
\* it and never calls it.
ignoreBad(infoArray) ==
    SelectSeq(infoArray,
              LAMBDA datum : ~(datum.fields = <<>> \/ ~isGoodTypeName(datum.typeName)))

-----------------------------------------------------------------------------
(* Tables.  An element is [tagName, classList, innerText, thead, tbody]:    *)
(* thead is the innerText of its 'thead th' cells, tbody the rows selected  *)
(* by 'tbody tr', each the innerText of its td cells.                       *)

\* isValidTableOfType (script.js:142-145)
isValidTableOfType(table) ==
    LET headers == [i \in 1..Len(table.thead) |-> trim(table.thead[i])]
    IN  /\ Len(headers) = 3
        /\ headers[1] = <<"F","i","e","l","d">>
        /\ headers[2] = <<"T","y","p","e">>
        /\ headers[3] = <<"D","e","s","c","r","i","p","t","i","o","n">>

\* getStructFieldInfoFromTable (script.js:20-34) throws a TypeError when a
\* row has fewer than three cells: cells[k] is undefined and its innerText
\* is read.
TableThrows(table) == \E r \in 1..Len(table.tbody) : Len(table.tbody[r]) < 3

\* getStructFieldInfoFromTable (script.js:20-34), when it returns
getStructFieldInfoFromTable(table) ==
    [r \in 1..Len(table.tbody) |->
        [field       |-> table.tbody[r][1],
         type        |-> table.tbody[r][2],
         description |-> table.tbody[r][3]]]

-----------------------------------------------------------------------------
(* Inputs: the elements getElementsInRangeAvailableTypes (script.js:288-305) *)
(* can return, i.e. elements matching 'h4, p, .table'.                      *)

H4(text) ==
    [tagName |-> "H4", classList |-> {}, innerText |-> text,
     thead |-> <<>>, tbody |-> <<>>]

P(text) ==
    [tagName |-> "P", classList |-> {}, innerText |-> text,
     thead |-> <<>>, tbody |-> <<>>]

Table(headers, rows) ==
    [tagName |-> "TABLE", classList |-> {"table"}, innerText |-> <<>>,
     thead |-> headers, tbody |-> rows]

\* value of elem before the first call of the callback
NoElem ==
    [tagName |-> "", classList |-> {}, innerText |-> <<>>,
     thead |-> <<>>, tbody |-> <<>>]

PointTable ==
    Table(<<<<"F","i","e","l","d">>, <<"T","y","p","e">>, <<"D","e","s","c","r","i","p","t","i","o","n">>>>,
          << <<<<"x">>, <<"I","n","t","e","g","e","r">>, <<"T","h","e"," ","x",".">>>>,
             <<<<"y">>, <<"I","n","t","e","g","e","r">>, <<"O","p","t","i","o","n","a","l","."," ","T","h","e"," ","y",".">>>> >>)

\* header cells with surrounding white space, and a row with a fourth cell
PaddedTable ==
    Table(<<<<" ","F","i","e","l","d">>, <<"T","y","p","e"," ">>, <<"\n","D","e","s","c","r","i","p","t","i","o","n">>>>,
          << <<<<"i","d">>, <<"S","t","r","i","n","g">>, <<"I","d",".">>, <<"e","x","t","r","a">>>> >>)

EmptyTable == Table(<<<<"F","i","e","l","d">>, <<"T","y","p","e">>, <<"D","e","s","c","r","i","p","t","i","o","n">>>>, <<>>)

BadHeaderTable ==
    Table(<<<<"N","a","m","e">>, <<"K","i","n","d">>, <<"D","e","s","c">>>>, << <<<<"x">>, <<"I","n","t","e","g","e","r">>, <<"T","h","e"," ","x",".">>>> >>)

ShortRowTable ==
    Table(<<<<"F","i","e","l","d">>, <<"T","y","p","e">>, <<"D","e","s","c","r","i","p","t","i","o","n">>>>, << <<<<"x">>, <<"I","n","t","e","g","e","r">>>> >>)

Elements ==
    { H4(<<"P","o","i","n","t">>), H4(<<"S","e","n","d","i","n","g"," ","f","i","l","e","s">>),
      P(<<"A"," ","2","D"," ","p","o","i","n","t",".">>), P(<<>>),
      PointTable, PaddedTable, EmptyTable, BadHeaderTable, ShortRowTable }

\* the longest element sequence explored
MaxElems == 6

-----------------------------------------------------------------------------
(* getStructInfoFromElements (script.js:83-131).  An object of the heap is  *)
(* named by a reference; info holds references and currentStruct is a       *)
(* reference or 0 (null), so the aliasing of the source is kept.            *)

\* mutant: the info.pop() is forgotten
Pop_Forgotten(s) == s

\* mutant: info.shift() in place of info.pop()
Pop_Shift(s) == IF s = <<>> THEN s ELSE Tail(s)

\* info.pop() (script.js:94, 118, 127): the array without its last element
Pop(s) == IF s = <<>> THEN s ELSE SubSeq(s, 1, Len(s) - 1)

References(inf, cur) ==
    {inf[i] : i \in 1..Len(inf)} \cup (IF cur = 0 THEN {} ELSE {cur})

\* what is left of heap h once the objects nothing refers to are collected
Collect(h, inf, cur) == [r \in (DOMAIN h) \cap References(inf, cur) |-> h[r]]

\* console.error of script.js:93, 116 and 126; struct is the reference of
\* the object the message is about (history)
Error(msg, quoted, ref) ==
    [level |-> "error", msg |-> msg, quoted |-> quoted,
     typeName |-> structs[ref].typeName, struct |-> ref]

\* mutant: && in place of || between the two flags
IsIncomplete_And == currentStruct # 0 /\ (~hasParagraph /\ ~hasTable)

\* the condition of script.js:92 and of script.js:125
IsIncomplete == currentStruct # 0 /\ (~hasParagraph \/ ~hasTable)

\* the callback is called with e and takes the branch named
Called(e, branch) ==
    /\ pc = "scan"
    /\ idx < MaxElems
    /\ elem' = e
    /\ idx' = idx + 1
    /\ taken' = Append(taken, branch)

\* script.js:90-104
ElemH4(e) ==
    /\ Called(e, "h4")
    /\ e.tagName = "H4"
    /\ LET discard == IsIncomplete
           kept    == IF discard THEN Pop(info) ELSE info
           ref     == Len(headings) + 1
           new     == [typeName |-> e.innerText, typeDoc |-> <<>>, fields |-> <<>>]
       IN  /\ console' = IF discard
                         THEN Append(console,
                                     Error("Incomplete struct found", TRUE, currentStruct))
                         ELSE console
           /\ info' = Append(kept, ref)
           /\ currentStruct' = ref
           /\ structs' = Collect([r \in DOMAIN structs \cup {ref} |->
                                     IF r = ref THEN new ELSE structs[r]],
                                 info', ref)
           /\ received' = Collect([r \in DOMAIN received \cup {ref} |->
                                     IF r = ref
                                     THEN [paragraphs |-> 0, tables |-> 0, last |-> NoElem]
                                     ELSE received[r]],
                                  info', ref)
           /\ headings' = Append(headings, e.innerText)
    /\ hasParagraph' = FALSE
    /\ hasTable' = FALSE
    /\ pc' = pc
    /\ UNCHANGED <<availableTypes, config, typeArg, typeResult, mpc,
                   fieldArg, fieldResult, fpc>>

\* script.js:105-108
ElemP(e) ==
    /\ Called(e, "p")
    /\ e.tagName # "H4"
    /\ e.tagName = "P" /\ currentStruct # 0
    /\ structs' = [structs EXCEPT ![currentStruct].typeDoc = @ \o e.innerText]
    /\ received' = [received EXCEPT ![currentStruct].paragraphs = @ + 1]
    /\ hasParagraph' = TRUE
    /\ pc' = pc
    /\ UNCHANGED <<info, currentStruct, hasTable, console, availableTypes,
                   headings, config, typeArg, typeResult, mpc,
                   fieldArg, fieldResult, fpc>>

\* the condition of script.js:109, reached when the two before it failed
IsTableBranch(e) ==
    /\ e.tagName # "H4"
    /\ ~(e.tagName = "P" /\ currentStruct # 0)
    /\ "table" \in e.classList /\ currentStruct # 0

\* script.js:111-114
ElemTableValid(e) ==
    /\ Called(e, "table")
    /\ IsTableBranch(e)
    /\ isValidTableOfType(e)
    /\ ~TableThrows(e)
    /\ structs' = [structs EXCEPT
                     ![currentStruct].fields = getStructFieldInfoFromTable(e)]
    /\ received' = [received EXCEPT ![currentStruct].tables = @ + 1,
                                   ![currentStruct].last = e]
    /\ hasTable' = TRUE
    /\ pc' = pc
    /\ UNCHANGED <<info, currentStruct, hasParagraph, console, availableTypes,
                   headings, config, typeArg, typeResult, mpc,
                   fieldArg, fieldResult, fpc>>

\* script.js:111-112 with script.js:27-29 throwing: nothing catches the
\* TypeError, which ends the script
ElemTableThrows(e) ==
    /\ Called(e, "throw")
    /\ IsTableBranch(e)
    /\ isValidTableOfType(e)
    /\ TableThrows(e)
    /\ pc' = "threw"
    /\ UNCHANGED <<info, structs, currentStruct, hasParagraph, hasTable, console,
                   availableTypes, received, headings, config,
                   typeArg, typeResult, mpc, fieldArg, fieldResult, fpc>>

\* mutant: currentStruct is not set to null
ElemTableInvalid_NoNull(e) ==
    /\ Called(e, "invalid")
    /\ IsTableBranch(e)
    /\ ~isValidTableOfType(e)
    /\ console' = Append(console,
                         Error("Invalid table format found", TRUE, currentStruct))
    /\ info' = Pop(info)
    /\ pc' = pc
    /\ UNCHANGED <<structs, currentStruct, received, hasParagraph, hasTable,
                   availableTypes, headings, config,
                   typeArg, typeResult, mpc, fieldArg, fieldResult, fpc>>

\* script.js:115-120
ElemTableInvalid(e) ==
    /\ Called(e, "invalid")
    /\ IsTableBranch(e)
    /\ ~isValidTableOfType(e)
    /\ console' = Append(console,
                         Error("Invalid table format found", TRUE, currentStruct))
    /\ info' = Pop(info)
    /\ currentStruct' = 0
    /\ structs' = Collect(structs, info', 0)
    /\ received' = Collect(received, info', 0)
    /\ pc' = pc
    /\ UNCHANGED <<hasParagraph, hasTable, availableTypes, headings, config,
                   typeArg, typeResult, mpc, fieldArg, fieldResult, fpc>>

\* no branch of script.js:90-121 is taken
ElemIgnored(e) ==
    /\ Called(e, "none")
    /\ e.tagName # "H4"
    /\ ~(e.tagName = "P" /\ currentStruct # 0)
    /\ ~("table" \in e.classList /\ currentStruct # 0)
    /\ pc' = pc
    /\ UNCHANGED <<info, structs, currentStruct, hasParagraph, hasTable, console,
                   availableTypes, received, headings, config,
                   typeArg, typeResult, mpc, fieldArg, fieldResult, fpc>>

\* mutant: no check of the last struct
Return_NoFinalCheck ==
    /\ pc = "scan"
    /\ pc' = "returned"
    /\ UNCHANGED <<elem, idx, taken, info, structs, currentStruct, hasParagraph, hasTable,
                   console, availableTypes, received, headings, config,
                   typeArg, typeResult, mpc, fieldArg, fieldResult, fpc>>

\* script.js:124-130: the elements are exhausted
Return ==
    /\ pc = "scan"
    /\ LET discard == IsIncomplete
       IN  /\ console' = IF discard
                         THEN Append(console,
                                     Error("Incomplete struct found", FALSE, currentStruct))
                         ELSE console
           /\ info' = IF discard THEN Pop(info) ELSE info
    /\ pc' = "returned"
    /\ UNCHANGED <<elem, idx, taken, structs, currentStruct, hasParagraph, hasTable,
                   availableTypes, received, headings, config,
                   typeArg, typeResult, mpc, fieldArg, fieldResult, fpc>>

\* script.js:307-310
Main ==
    /\ pc = "returned"
    /\ availableTypes' = [i \in 1..Len(info) |-> structs[info[i]]]
    /\ console' = console \o
         << [level |-> "log", args |-> availableTypes'],
            [level |-> "log",
             args  |-> <<"Generate", Len(availableTypes'),
                         [i \in 1..Len(availableTypes') |-> availableTypes'[i].typeName]>>],
            [level |-> "log", args |-> genCode(availableTypes')] >>
    /\ pc' = "done"
    /\ UNCHANGED <<elem, idx, taken, info, structs, currentStruct, hasParagraph, hasTable,
                   received, headings, config,
                   typeArg, typeResult, mpc, fieldArg, fieldResult, fpc>>

\* the config of script.js:1-6
SourceConfig ==
    [integerIs |-> <<"i","6","4">>, floatIs |-> <<"f","6","4">>, trueIsBool |-> FALSE,
     useJsonValueInCaseIncludesOr |-> TRUE]

ScriptIdle(p) ==
    /\ pc = p
    /\ elem = NoElem
    /\ idx = 0
    /\ taken = <<>>
    /\ info = <<>>
    /\ structs = <<>>
    /\ currentStruct = 0
    /\ hasParagraph = FALSE
    /\ hasTable = FALSE
    /\ console = <<>>
    /\ availableTypes = <<>>
    /\ received = <<>>
    /\ headings = <<>>

MapperIdle == typeArg = <<>> /\ typeResult = <<>> /\ mpc = "off"

FieldIdle ==
    /\ fieldArg = [field |-> <<>>, type |-> <<>>, description |-> <<>>]
    /\ fieldResult = <<>>
    /\ fpc = "off"

Init ==
    /\ ScriptIdle("scan")
    /\ config = SourceConfig
    /\ MapperIdle
    /\ FieldIdle

Next ==
    \/ \E e \in Elements : ElemH4(e)
    \/ \E e \in Elements : ElemP(e)
    \/ \E e \in Elements : ElemTableValid(e)
    \/ \E e \in Elements : ElemTableThrows(e)
    \/ \E e \in Elements : ElemTableInvalid(e)
    \/ \E e \in Elements : ElemIgnored(e)
    \/ Return
    \/ Main

Spec == Init /\ [][Next]_vars

-----------------------------------------------------------------------------
(* A call of replaceTypeIfNeeded on its own, for every config.              *)

Configs ==
    [integerIs : {<<"i","6","4">>, NULL}, floatIs : {<<"f","6","4">>, NULL},
     trueIsBool : BOOLEAN, useJsonValueInCaseIncludesOr : BOOLEAN]

\* deepest "Array of" nesting explored
MaxDepth == 3

\* single-word type names
BaseNames ==
    { <<"I","n","t","e","g","e","r">>, <<"F","l","o","a","t">>, <<"B","o","o","l","e","a","n">>, <<"T","r","u","e">>, <<"S","t","r","i","n","g">>,
      <<"P","h","o","t","o","S","i","z","e">>, <<"M","e","s","s","a","g","e">>, <<"F","o","r","u","m","T","o","p","i","c">> }

\* type names of several words
UnionNames ==
    { <<"I","n","t","e","g","e","r"," ","o","r"," ","S","t","r","i","n","g">>, <<"F","o","o"," ","o","r"," ","B","a","r">>, <<"I","n","p","u","t","F","i","l","e"," ","o","r"," ","S","t","r","i","n","g">>,
      <<"P","h","o","t","o"," ","a","n","d"," ","V","i","d","e","o">> }

RECURSIVE ArrayOf(_, _)
ArrayOf(k, base) == IF k = 0 THEN base ELSE <<"A","r","r","a","y"," ","o","f"," ">> \o ArrayOf(k - 1, base)

RECURSIVE Brackets(_)
Brackets(k) == IF k = 0 THEN <<>> ELSE <<"[","]">> \o Brackets(k - 1)

TypeInputs ==
    {ArrayOf(k, b) : k \in 0..MaxDepth, b \in BaseNames} \cup UnionNames

InitMapType ==
    /\ ScriptIdle("off")
    /\ FieldIdle
    /\ config \in Configs
    /\ typeArg \in TypeInputs
    /\ typeResult = <<>>
    /\ mpc = "call"

CallReplaceType ==
    /\ mpc = "call"
    /\ typeResult' = replaceTypeIfNeeded(typeArg)
    /\ mpc' = "ret"
    /\ UNCHANGED <<pc, elem, idx, taken, info, structs, currentStruct, hasParagraph,
                   hasTable, console, availableTypes, received, headings,
                   config, typeArg, fieldArg, fieldResult, fpc>>

NextMapType == CallReplaceType

SpecMapType == InitMapType /\ [][NextMapType]_vars

-----------------------------------------------------------------------------
(* A call of genOneField on its own, with the indent genManyFields uses.    *)

FieldNames == { <<"x">>, <<"u","s","e","r","_","i","d">> }

FieldTypes ==
    { <<"I","n","t","e","g","e","r">>, <<"S","t","r","i","n","g">>, <<"T","r","u","e">>, <<"M","e","s","s","a","g","e">>, <<"A","r","r","a","y"," ","o","f"," ","I","n","t","e","g","e","r">>,
      <<"I","n","t","e","g","e","r"," ","o","r"," ","S","t","r","i","n","g">> }

Descriptions ==
    { <<"T","h","e"," ","x",".">>, <<"O","p","t","i","o","n","a","l","."," ","f","o","o">>, <<"O","p","t","i","o","n","a","l",".">>, <<"O","p","t","i","o","n","a","l">>, <<"o","p","t","i","o","n","a","l","."," ","f","o","o">>,
      <<"N","o","t"," ","O","p","t","i","o","n","a","l","."," ","f","o","o">>, <<" ","O","p","t","i","o","n","a","l","."," ","f","o","o">>, <<"O","p","t","i","o","n","a","l","."," ","f","o","o","\n","b","a","r">>, <<>> }

InitField ==
    /\ ScriptIdle("off")
    /\ MapperIdle
    /\ config \in Configs
    /\ fieldArg \in [field : FieldNames, type : FieldTypes, description : Descriptions]
    /\ fieldResult = <<>>
    /\ fpc = "call"

CallGenOneField ==
    /\ fpc = "call"
    /\ fieldResult' = genOneField(fieldArg, DefaultIndent)
    /\ fpc' = "ret"
    /\ UNCHANGED <<pc, elem, idx, taken, info, structs, currentStruct, hasParagraph,
                   hasTable, console, availableTypes, received, headings,
                   config, typeArg, typeResult, mpc, fieldArg>>

NextField == CallGenOneField

SpecField == InitField /\ [][NextField]_vars

-----------------------------------------------------------------------------
(* Properties.                                                              *)

InfoHas(inf, ref) == \E i \in 1..Len(inf) : inf[i] = ref

\* the console.error messages
Errors == {k \in 1..Len(console) : console[k].level = "error"}

ErrorsFor(ref) == {k \in Errors : console[k].struct = ref}

\* the step calls the forEach callback (with elem')
CallbackStep == pc = "scan" /\ idx' = idx + 1

\* the step passes the closing boundary of the open candidate: the next
\* heading, or the end of the elements
ClosingStep ==
    /\ pc = "scan"
    /\ currentStruct # 0
    /\ \/ idx' = idx + 1 /\ elem'.tagName = "H4"
       \/ pc' = "returned"

\* the step adds exactly one "Incomplete struct" message, about the open
\* candidate and with its heading's text
ReportsIncomplete ==
    /\ Len(console') = Len(console) + 1
    /\ SubSeq(console', 1, Len(console)) = console
    /\ LET m == console'[Len(console')]
       IN  /\ m.level = "error"
           /\ m.msg = "Incomplete struct found"
           /\ m.typeName = headings[currentStruct]

\* C1: every record passed to genCode has non-empty documentation, at least
\* one field and a type name accepted by isGoodTypeName.
C1_OnlyGoodRecordsReachEmitter ==
    pc = "done" =>
        \A i \in 1..Len(availableTypes) :
            /\ availableTypes[i].typeDoc # <<>>
            /\ availableTypes[i].fields # <<>>
            /\ isGoodTypeName(availableTypes[i].typeName)

C3_IncompleteDiscarded ==
    [][ (/\ ClosingStep
         /\ \/ received[currentStruct].paragraphs = 0
            \/ received[currentStruct].tables = 0)
        => (~InfoHas(info', currentStruct) /\ ReportsIncomplete) ]_vars

\* C3 witness: the last of several candidates was discarded as incomplete by
\* the check at the end of the elements.
C3_Witness ==
    /\ pc = "returned"
    /\ Len(headings) >= 2
    /\ console # <<>>
    /\ LET m == console[Len(console)]
       IN  /\ m.msg = "Incomplete struct found"
           /\ ~m.quoted
           /\ m.struct = Len(headings)
    /\ ~InfoHas(info, Len(headings))

\* an element that is a table and neither a heading nor a paragraph
IsTableElem(e) == "table" \in e.classList /\ e.tagName \notin {"H4", "P"}

HeadersAreFieldTypeDescription(e) ==
    [i \in 1..Len(e.thead) |-> trim(e.thead[i])]
        = <<<<"F","i","e","l","d">>, <<"T","y","p","e">>, <<"D","e","s","c","r","i","p","t","i","o","n">>>>

\* C4: a table whose trimmed headers are not Field, Type, Description,
\* arriving while a record is open, discards that record at once with one
\* message and leaves the builder idle and scanning; while idle, a paragraph
\* or table changes neither info, nor the records, nor the console; and a
\* candidate given a paragraph and a header-valid table is kept at its
\* closing boundary, whatever was discarded before it.
C4_MalformedTableRecovery ==
    [][ /\ (/\ CallbackStep
            /\ currentStruct # 0
            /\ IsTableElem(elem')
            /\ ~HeadersAreFieldTypeDescription(elem'))
           => /\ currentStruct' = 0
              /\ info' = Pop(info)
              /\ ~InfoHas(info', currentStruct)
              /\ Len(console') = Len(console) + 1
              /\ SubSeq(console', 1, Len(console)) = console
              /\ console'[Len(console')].msg = "Invalid table format found"
              /\ console'[Len(console')].typeName = headings[currentStruct]
              /\ pc' = "scan"
        /\ (/\ CallbackStep
            /\ currentStruct = 0
            /\ elem'.tagName # "H4")
           => /\ UNCHANGED <<info, structs, console, currentStruct>>
              /\ pc' = "scan"
        /\ (/\ ClosingStep
            /\ received[currentStruct].paragraphs >= 1
            /\ received[currentStruct].tables >= 1)
           => /\ InfoHas(info', currentStruct)
              /\ ErrorsFor(currentStruct) = {}
              /\ console' = console ]_vars

\* C4 witness: the first heading's record was discarded for its table, the
\* element that followed took no branch, and the second heading's
\* record, given a paragraph and a table, is the one returned.
C4_Witness ==
    /\ pc = "returned"
    /\ taken = <<"h4", "invalid", "none", "h4", "p", "table">>
    /\ info = <<2>>
    /\ Cardinality(Errors) = 1
    /\ \E k \in Errors : /\ console[k].msg = "Invalid table format found"
                         /\ console[k].struct = 1

\* C5: once an open record has been given a header-valid table with a row
\* of fewer than three cells, the run is not aborted and the record is not
\* in info.
C5_ShortRowDoesNotAbort ==
    (/\ idx > 0
     /\ currentStruct # 0
     /\ IsTableElem(elem)
     /\ HeadersAreFieldTypeDescription(elem)
     /\ \E r \in 1..Len(elem.tbody) : Len(elem.tbody[r]) < 3)
        => /\ pc # "threw"
           /\ ~InfoHas(info, currentStruct)

\* C6: k times "Array of " before a single-word name B maps to k times "[]"
\* before the mapping of B.
C6_ArrayNesting ==
    mpc = "ret" =>
        \A k \in 0..MaxDepth, b \in BaseNames :
            typeArg = ArrayOf(k, b) =>
                typeResult = Brackets(k) \o replaceTypeIfNeeded(b)

\* the word w occurs in s: an occurrence with no word character on either side
HasWord(s, w) ==
    \E i \in 1..(Len(s) - Len(w) + 1) :
        /\ SubSeq(s, i, i + Len(w) - 1) = w
        /\ i = 1 \/ s[i - 1] \notin WordChar
        /\ i + Len(w) > Len(s) \/ s[i + Len(w)] \notin WordChar

\* the names C7 is about
IsOtherName(s) ==
    /\ ~includes(s, <<"A","r","r","a","y"," ","o","f">>)
    /\ ~startsWith(s, <<"[","]">>)
    /\ s \notin {<<"I","n","t","e","g","e","r">>, <<"F","l","o","a","t">>, <<"B","o","o","l","e","a","n">>, <<"T","r","u","e">>, <<"S","t","r","i","n","g">>,
                 <<"I","n","t","e","g","e","r"," ","o","r"," ","S","t","r","i","n","g">>}

\* C7: a name that is no array form, no primitive and not "Integer or String"
\* maps to the JSON value type (or, with the option off, to the compile error
\* carrying the name) if it contains the word "or", and to itself otherwise.
C7_UnionOrPassThrough ==
    (mpc = "ret" /\ IsOtherName(typeArg)) =>
        typeResult =
            IF HasWord(typeArg, <<"o","r">>)
            THEN IF config.useJsonValueInCaseIncludesOr
                 THEN <<"s","t","d",".","j","s","o","n",".","V","a","l","u","e">>
                 ELSE <<"@","c","o","m","p","i","l","e","E","r","r","o","r","(","\"","T","y","p","e"," ","n","a","m","e"," ","i","n","c","l","u","d","e","s"," ","'","o","r","'"," ","n","o","t"," ","y","e","t"," ","s","u","p","p","o","r","t","e","d",":"," ","'">>
                      \o typeArg \o <<"'","\"",")">>
            ELSE typeArg

\* the last line of a text that ends with a newline
LastLine(s) ==
    LET body   == SubSeq(s, 1, Len(s) - 1)
        breaks == {i \in 1..Len(body) : body[i] = "\n"}
        from   == IF breaks = {} THEN 1
                  ELSE 1 + CHOOSE i \in breaks : \A j \in breaks : j <= i
    IN  SubSeq(body, from, Len(body))

\* C8: the member line of a field is "name: ?T = null," exactly when the
\* description begins with "Optional.", and "name: T," otherwise, T being
\* replaceTypeIfNeeded of the field's type.
C8_OptionalIffPrefix ==
    fpc = "ret" =>
        LET T    == replaceTypeIfNeeded(fieldArg.type)
            d    == fieldArg.description
            opt  == Len(d) >= 9 /\ SubSeq(d, 1, 9) = <<"O","p","t","i","o","n","a","l",".">>
        IN  /\ fieldResult # <<>>
            /\ fieldResult[Len(fieldResult)] = "\n"
            /\ LastLine(fieldResult) =
                 DefaultIndent \o fieldArg.field \o <<":"," ">>
                 \o (IF opt THEN <<"?">> \o T \o <<" ","="," ","n","u","l","l">> ELSE T) \o <<",">>

\* C8 witness: a field whose description begins with "Optional." has been
\* emitted.
C8_Witness ==
    /\ fpc = "ret"
    /\ startsWith(fieldArg.description, <<"O","p","t","i","o","n","a","l","."," ","f","o","o">>)
    /\ includes(fieldResult, <<"?">>)
    /\ includes(fieldResult, <<" ","="," ","n","u","l","l",",">>)

\* the record at place i of info has passed its closing boundary
Closed(i) == pc \in {"returned", "done"} \/ info[i] # currentStruct

\* the fields the rows of a table stand for, first three cells of each row
RowsAsFields(table) ==
    [r \in 1..Len(table.tbody) |->
        [field |-> table.tbody[r][1], type |-> table.tbody[r][2],
         description |-> table.tbody[r][3]]]

\* C9 as stated: a record kept past its closing boundary was given at least
\* one paragraph and exactly one header-valid table.
C9_ExactlyOneTable ==
    \A i \in 1..Len(info) :
        Closed(i) => /\ received[info[i]].paragraphs >= 1
                     /\ received[info[i]].tables = 1

\* C9 amended: a record kept past its closing boundary was given at least
\* one paragraph and at least one header-valid table, and its fields are
\* those of the last header-valid table it was given.
C9_AtLeastOneTable ==
    \A i \in 1..Len(info) :
        Closed(i) => /\ received[info[i]].paragraphs >= 1
                     /\ received[info[i]].tables >= 1
                     /\ structs[info[i]].fields
                          = RowsAsFields(received[info[i]].last)

\* C9 witness: a record given two header-valid tables, the second with other
\* rows than the first, has been returned.
C9_Witness ==
    /\ pc = "returned"
    /\ taken = <<"h4", "p", "table", "table">>
    /\ \E i \in 1..Len(info) :
          /\ received[info[i]].tables = 2
          /\ received[info[i]].last = PaddedTable
          /\ structs[info[i]].fields # <<>>

\* C10: a step never removes or changes a record that has passed its closing
\* boundary (so what a step removes from info is the open candidate), the
\* records of info are in the order of their headings, and the records
\* passed on are those of info.
C10_AcceptedNeverRevisited ==
    [][ /\ \A i \in 1..Len(info) :
              Closed(i) => /\ i <= Len(info')
                           /\ info'[i] = info[i]
                           /\ structs'[info[i]] = structs[info[i]]
        /\ \A i, j \in 1..Len(info') : i < j => info'[i] < info'[j]
        /\ pc' = "done" =>
              availableTypes' = [i \in 1..Len(info) |-> structs[info[i]]] ]_vars

\* C10 witness: the builder has returned a record although a later candidate
\* was discarded.
C10_Witness ==
    /\ pc = "returned"
    /\ \E i \in 1..Len(info) : \E k \in Errors :
          /\ info[i] < console[k].struct
          /\ structs[info[i]].typeName = headings[info[i]]

====
